---- MODULE Spec2Model ----
(***************************************************************************)
(* Model of src/main.py: the filtered RSS proxy.                           *)
(*                                                                         *)
(* Text is modelled character by character: a Python str is a sequence of  *)
(* one-character strings, so that escaping, substring tests, regular       *)
(* expressions and truncation are computed the way the code computes them. *)
(*                                                                         *)
(* The rate limiter, the compression and the response headers wrap the     *)
(* handler and are left out: the model starts where filtered_feed runs.    *)
(***************************************************************************)
EXTENDS Integers, Sequences, FiniteSets, TLC

VARIABLES pc, i, last_error, entries, attempts, payload, response, text, element

vars == <<pc, i, last_error, entries, attempts, payload, response, text, element>>

(***************************************************************************)
(* Generic helpers on character sequences.                                 *)
(***************************************************************************)
Min(S) == CHOOSE x \in S : \A y \in S : x <= y
Max(S) == CHOOSE x \in S : \A y \in S : x >= y

\* s[a..b], the empty string when a > b (a Python slice).
Slice(s, a, b) == IF a > b THEN <<>> ELSE SubSeq(s, a, b)

\* Whether pattern p occurs in s starting at index k.
MatchAt(s, p, k) ==
    /\ k >= 1
    /\ k + Len(p) - 1 <= Len(s)
    /\ SubSeq(s, k, k + Len(p) - 1) = p

\* Python's `p in s`.
Contains(s, p) == \E k \in 1..(Len(s) + 1) : MatchAt(s, p, k)

\* Python's str.lower() on the letters the model uses.
LowerChar(c) ==
    CASE c = "I" -> "i"
      [] c = "R" -> "r"
      [] c = "A" -> "a"
      [] c = "Q" -> "q"
      [] OTHER -> c
Lower(s) == [k \in 1..Len(s) |-> LowerChar(s[k])]

\* Python's str.isspace() on the characters the model uses.
IsSpace(c) == c \in {" ", "\n", "\t"}

\* Python's str.replace(old, new): leftmost, non-overlapping, all occurrences.
RECURSIVE ReplaceFrom(_, _, _, _)
ReplaceFrom(s, old, new, pos) ==
    LET hits == {k \in pos..(Len(s) - Len(old) + 1) : s[k] = old[1] /\ MatchAt(s, old, k)}
    IN  IF hits = {} THEN Slice(s, pos, Len(s))
        ELSE LET k == Min(hits)
             IN  Slice(s, pos, k - 1) \o new \o ReplaceFrom(s, old, new, k + Len(old))
Replace(s, old, new) == ReplaceFrom(s, old, new, 1)

(***************************************************************************)
(* String literals of the program.                                         *)
(***************************************************************************)
ThePost == <<"T","h","e"," ","p","o","s","t"," ">>
AppearedFirstOn == <<" ","a","p","p","e","a","r","e","d"," ","f","i","r","s","t"," ","o","n"," ">>
Ellipsis == <<".",".",".">>
CDATA_OPEN == <<"<","!","[","C","D","A","T","A","[">>
CDATA_CLOSE == <<"]","]",">">>
ESC_CDATA_OPEN == <<"&","l","t",";","!","[","C","D","A","T","A","[">>
ESC_CDATA_CLOSE == <<"]","]","&","g","t",";">>
IraqSlash == <<"i","r","a","q","/">>

(***************************************************************************)
(* FeedEntry._clean_description                                            *)
(***************************************************************************)
\* Truncation limit and the length kept before the ellipsis.
MaxDescription == 500
KeptDescription == 497

\* re.sub(r"The post .+ appeared first on .+\.", "", text).
\* "." does not match a newline, so a match lies on one line; both ".+" are
\* greedy, so the match ends at the last "." of the line that leaves room for
\* " appeared first on " and one more character before it.  (The literal has
\* no newline, so an occurrence that starts on the line lies on the line.)
LineEnd(s, k) ==
    LET nls == {n \in k..Len(s) : s[n] = "\n"}
    IN  IF nls = {} THEN Len(s) ELSE Min(nls) - 1

BoilerplateEnds(s, k) ==
    LET e  == LineEnd(s, k)
        js == {j \in (k + Len(ThePost) + 1)..e : MatchAt(s, AppearedFirstOn, j)}
    IN  IF js = {} THEN {}
        ELSE {d \in (Min(js) + Len(AppearedFirstOn) + 1)..e : s[d] = "."}

BoilerplateAt(s, k) == MatchAt(s, ThePost, k) /\ BoilerplateEnds(s, k) # {}

RECURSIVE StripBoilerplateFrom(_, _)
StripBoilerplateFrom(s, pos) ==
    LET starts == {k \in pos..Len(s) : BoilerplateAt(s, k)}
    IN  IF starts = {} THEN Slice(s, pos, Len(s))
        ELSE LET k == Min(starts)
                 d == Max(BoilerplateEnds(s, k))
             IN  Slice(s, pos, k - 1) \o StripBoilerplateFrom(s, d + 1)
StripBoilerplate(s) == StripBoilerplateFrom(s, 1)

\* text.strip().startswith("<")
StartsWithMarkup(s) ==
    LET ns == {k \in 1..Len(s) : ~IsSpace(s[k])}
    IN  ns # {} /\ s[Min(ns)] = "<"

\* re.search(r"<(?:p|div)[^>]*>(.*?)</(?:p|div)>", text, re.DOTALL): the
\* leftmost opening tag that is closed; group(1) runs from the first ">"
\* after the tag name to the nearest closing tag.
TagP == <<"<","p">>
TagDiv == <<"<","d","i","v">>
CloseP == <<"<","/","p",">">>
CloseDiv == <<"<","/","d","i","v",">">>

OpenNameEnd(s, k) ==
    IF MatchAt(s, TagP, k) THEN k + Len(TagP) - 1
    ELSE IF MatchAt(s, TagDiv, k) THEN k + Len(TagDiv) - 1
    ELSE 0

FirstGt(s, k) ==
    LET gs == {g \in k..Len(s) : s[g] = ">"}
    IN  IF gs = {} THEN 0 ELSE Min(gs)

FirstClose(s, k) ==
    LET cs == {c \in k..Len(s) : MatchAt(s, CloseP, c) \/ MatchAt(s, CloseDiv, c)}
    IN  IF cs = {} THEN 0 ELSE Min(cs)

BlockAt(s, k) ==
    /\ OpenNameEnd(s, k) # 0
    /\ FirstGt(s, OpenNameEnd(s, k) + 1) # 0
    /\ FirstClose(s, FirstGt(s, OpenNameEnd(s, k) + 1) + 1) # 0

FirstBlock(s) ==
    LET starts == {k \in 1..Len(s) : BlockAt(s, k)}
    IN  IF starts = {} THEN s
        ELSE LET k == Min(starts)
                 g == FirstGt(s, OpenNameEnd(s, k) + 1)
                 c == FirstClose(s, g + 1)
             IN  Slice(s, g + 1, c - 1)

\* re.sub(r"<[^>]+>", " ", text): a "<", at least one character that is not
\* ">", then the first ">".
TagAt(s, k) == s[k] = "<" /\ FirstGt(s, k + 1) > k + 1

RECURSIVE StripTagsFrom(_, _)
StripTagsFrom(s, pos) ==
    LET starts == {k \in pos..Len(s) : TagAt(s, k)}
    IN  IF starts = {} THEN Slice(s, pos, Len(s))
        ELSE LET k == Min(starts)
             IN  Slice(s, pos, k - 1) \o <<" ">> \o StripTagsFrom(s, FirstGt(s, k + 1) + 1)
StripTags(s) == StripTagsFrom(s, 1)

\* " ".join(text.split()): the words of the text joined by single spaces.  A
\* character is kept when it is no whitespace; the first whitespace after a
\* word is kept as " " when another word follows.
CollapseWhitespace(s) ==
    LET ns    == {k \in 1..Len(s) : ~IsSpace(s[k])}
        first == Min(ns)
        last  == Max(ns)
        Keep(k) == \/ ~IsSpace(s[k])
                   \/ (k > first /\ k < last /\ ~IsSpace(s[k - 1]))
        kept  == SelectSeq([k \in 1..Len(s) |-> k], Keep)
    IN  IF ns = {} THEN <<>>
        ELSE [j \in 1..Len(kept) |-> IF IsSpace(s[kept[j]]) THEN " " ELSE s[kept[j]]]

\* Truncate with the cut made at the limit, not three characters before it.
TruncateAtLimit(s) ==
    IF Len(s) > MaxDescription THEN Slice(s, 1, MaxDescription) \o Ellipsis ELSE s

\* if len(text) > 500: text = text[:497] + "..."
Truncate(s) ==
    IF Len(s) > MaxDescription THEN Slice(s, 1, KeptDescription) \o Ellipsis ELSE s

StripMarkup(s) == IF StartsWithMarkup(s) THEN StripTags(FirstBlock(s)) ELSE s

_clean_description(s) == Truncate(CollapseWhitespace(StripMarkup(StripBoilerplate(s))))

(***************************************************************************)
(* xml.etree.ElementTree text serialization and the string patching that   *)
(* create_xml_response applies to the serialized document.  A replacement  *)
(* pattern that starts with "&" or " " holds no "<" or ">", so each of its *)
(* matches lies inside one text node; the model applies the patches to the *)
(* text nodes of the items.                                                *)
(***************************************************************************)
AMP == <<"&","a","m","p",";">>
LT == <<"&","l","t",";">>
GT == <<"&","g","t",";">>

\* ElementTree's _escape_cdata: "&", "<" and ">" become entities.
EscapeChar(c) ==
    CASE c = "&" -> AMP
      [] c = "<" -> LT
      [] c = ">" -> GT
      [] OTHER -> <<c>>

RECURSIVE EscapeFrom(_, _)
EscapeFrom(s, k) == IF k > Len(s) THEN <<>> ELSE EscapeChar(s[k]) \o EscapeFrom(s, k + 1)
EscapeText(s) == EscapeFrom(s, 1)

RSS_OPEN == <<"<","r","s","s">>
RSS_OPEN_NL == <<"<","r","s","s","\n","\t">>
XMLNS == <<" ","x","m","l","n","s",":">>
XMLNS_NL == <<"\n","\t","x","m","l","n","s",":">>
CHANNEL_OPEN == <<"<","c","h","a","n","n","e","l",">">>
CHANNEL_OPEN_NL == <<"\n","<","c","h","a","n","n","e","l",">">>
CHANNEL_CLOSE == <<"<","/","c","h","a","n","n","e","l",">">>
CHANNEL_CLOSE_NL == <<"\n","<","/","c","h","a","n","n","e","l",">">>
ITEM_OPEN == <<"<","i","t","e","m",">">>
ITEM_OPEN_NL == <<"\n","\t","<","i","t","e","m",">">>
ITEM_CLOSE == <<"<","/","i","t","e","m",">">>
ITEM_CLOSE_NL == <<"\n","\t","<","/","i","t","e","m",">">>

\* "Fix CDATA sections": the two replacements of the escaped markers.
FixCdata(s) == Replace(Replace(s, ESC_CDATA_OPEN, CDATA_OPEN), ESC_CDATA_CLOSE, CDATA_CLOSE)

\* "Add proper indentation": the six replacements that follow.
Indent(s) ==
    Replace(Replace(Replace(Replace(Replace(Replace(s,
        RSS_OPEN, RSS_OPEN_NL), XMLNS, XMLNS_NL), CHANNEL_OPEN, CHANNEL_OPEN_NL),
        CHANNEL_CLOSE, CHANNEL_CLOSE_NL), ITEM_OPEN, ITEM_OPEN_NL), ITEM_CLOSE, ITEM_CLOSE_NL)

\* The characters the response carries for an element whose .text is s.
SerializeText(s) == Indent(FixCdata(EscapeText(s)))

\* f"<![CDATA[{s}]]>" and f"<![CDATA[\n{s}\n]]>"
Cdata(s) == CDATA_OPEN \o s \o CDATA_CLOSE
CdataLines(s) == CDATA_OPEN \o <<"\n">> \o s \o <<"\n">> \o CDATA_CLOSE

(***************************************************************************)
(* Parsed feed entries (feedparser's FeedParserDict).  An attribute the    *)
(* item does not carry is Missing, and reading it raises AttributeError.   *)
(* feedparser stores an item's <description> under "summary" and reads     *)
(* entry.description from it, so the model keeps the one field.            *)
(***************************************************************************)
None == <<"None">>
Missing == <<"Missing">>

Item(title, link, summary, content, published) ==
    [title |-> title, link |-> link, summary |-> summary, content |-> content,
     published |-> published]

GreatStoryBoilerplate == <<"G","r","e","a","t"," ","s","t","o","r","y","."," ","T","h","e"," ","p","o","s","t"," ","F","o","o"," ","a","p","p","e","a","r","e","d"," ","f","i","r","s","t"," ","o","n"," ","B","a","r",".">>
BoldMarkup == <<"<","b",">","b","o","l","d","<","/","b",">">>
PlainSummary == <<"p","l","a","i","n">>
FullContent == <<"<","p",">","f","u","l","l","<","/","p",">">>
PubDate == <<"M","o","n">>

ItemA == Item(<<"A">>, <<"/","i","r","a","q","/","a">>, GreatStoryBoilerplate, Missing, PubDate)
ItemB == Item(<<"B">>, <<"/","i","r","a","n","/","b">>, PlainSummary, Missing, Missing)
ItemC == Item(<<"C">>, <<"/","I","r","a","q","/","c">>, BoldMarkup, FullContent, Missing)
ItemNoLink == Item(<<"D">>, Missing, PlainSummary, Missing, Missing)
ItemNoTitle == Item(Missing, <<"/","i","r","a","q","/","e">>, PlainSummary, Missing, Missing)
ItemSlug == Item(<<"F">>, <<"/","u","s","-","i","r","a","q","/","f">>, PlainSummary, Missing, Missing)
ItemEmptyLink == Item(<<"G">>, <<>>, PlainSummary, Missing, Missing)

ItemNoTitleOther == Item(Missing, <<"/","i","r","a","n","/","h">>, PlainSummary, Missing, Missing)
ItemNoSummary == Item(<<"I">>, <<"/","i","r","a","q","/","i">>, Missing, Missing, Missing)

Items == {ItemA, ItemB, ItemC, ItemNoLink, ItemNoTitle, ItemSlug, ItemEmptyLink,
          ItemNoTitleOther, ItemNoSummary}

\* The feeds upstream may serve: every sequence of at most MaxItems items.
MaxItems == 3
SeqsUpTo(S, n) == UNION {[1..m -> S] : m \in 0..n}
Feeds == SeqsUpTo(Items, MaxItems)

(***************************************************************************)
(* FeedEntry.__init__                                                      *)
(***************************************************************************)
Truthy(s) == s # None /\ s # Missing /\ s # <<>>

FeedEntry(title, link, description, published, content) ==
    [title |-> title, link |-> link, description |-> description,
     published |-> published,
     content |-> IF Truthy(content) THEN content ELSE description]

(***************************************************************************)
(* FeedEntry.to_xml: the .text of the elements of the <item> it builds     *)
(* (the media elements, which hold no text, are left out).                 *)
(***************************************************************************)
NoElement == [built |-> FALSE]

to_xml(entry) ==
    [built |-> TRUE,
     title |-> entry.title,
     link |-> entry.link,
     description |-> _clean_description(entry.description),
     content |-> IF Truthy(entry.content) THEN Cdata(entry.content) ELSE None,
     pubDate |-> IF Truthy(entry.published) THEN entry.published ELSE None,
     isPermaLink |-> "true",
     guid |-> entry.link]

(***************************************************************************)
(* FeedManager                                                             *)
(***************************************************************************)
\* __init__: the candidate URLs, in the order they are tried.
feed_urls ==
    <<[scheme |-> "https", host |-> "iraqinews.com", path |-> "/feed/"],
      [scheme |-> "https", host |-> "www.iraqinews.com", path |-> "/feed/"],
      [scheme |-> "https", host |-> "iraqinews.com", path |-> "/rss/"],
      [scheme |-> "https", host |-> "www.iraqinews.com", path |-> "/rss/"]>>

\* is_valid_url on a URL split into scheme, host and path.
is_valid_url(url) == url.scheme \in {"http", "https"} /\ url.host # ""

\* An item that lacks a required field.
LacksRequired(e) == e.title = Missing \/ e.link = Missing

\* The condition of the list comprehension: "iraq/" in entry.link.lower()
PassesFilter(e) == Contains(Lower(e.link), IraqSlash)

\* Whether evaluating the comprehension's condition and element for e raises
\* AttributeError: entry.link is read for every item; entry.title and
\* entry.description only for an item that passes the condition.
EntryRaises(e) ==
    IF e.link = Missing THEN TRUE
    ELSE PassesFilter(e) /\ (e.title = Missing \/ e.summary = Missing)

\* The FeedEntry built for an item that passes and does not raise.
\*   description = getattr(entry, "summary", entry.description)
\*   content = content[0].value or summary or entry.description
NormalizeEntry(e) ==
    FeedEntry(e.title, e.link, e.summary,
              IF e.published = Missing THEN None ELSE e.published,
              IF Truthy(e.content) THEN e.content ELSE e.summary)

\* FilteredEntries with the retained items in reverse order.
FilteredEntriesReversed(f) ==
    LET kept == SelectSeq(f, PassesFilter)
    IN  [k \in 1..Len(kept) |-> NormalizeEntry(kept[Len(kept) + 1 - k])]

\* The list the comprehension returns when no item raises.
FilteredEntries(f) ==
    LET kept == SelectSeq(f, PassesFilter)
    IN  [k \in 1..Len(kept) |-> NormalizeEntry(kept[k])]

\* Outcome without the guard "if feed.entries": an empty feed is returned.
OutcomeNoEmptyGuard(f) ==
    IF \E k \in 1..Len(f) : EntryRaises(f[k]) THEN "raised" ELSE "returned"

\* What the body of the try block does with a fetched feed: "empty" when
\* feed.entries is falsy (the loop goes on), "raised" when the comprehension
\* raises (caught, the loop goes on), "returned" when the list is returned.
Outcome(f) ==
    IF f = <<>> THEN "empty"
    ELSE IF \E k \in 1..Len(f) : EntryRaises(f[k]) THEN "raised"
    ELSE "returned"

(***************************************************************************)
(* FeedResponse.create_xml_response: the response, its document given by   *)
(* the text of the elements of each <item>, as the body carries it.        *)
(***************************************************************************)
CreatorText == <<"I","r","a","q","i","N","e","w","s">>
CategoryText == <<"I","r","a","q">>

ItemElement(entry) ==
    [title |-> SerializeText(entry.title),
     link |-> SerializeText(entry.link),
     creator |-> SerializeText(Cdata(CreatorText)),
     pubDate |-> IF Truthy(entry.published) THEN SerializeText(entry.published) ELSE None,
     category |-> SerializeText(Cdata(CategoryText)),
     isPermaLink |-> "false",
     guid |-> SerializeText(entry.link),
     description |-> SerializeText(Cdata(entry.description)),
     content |-> IF Truthy(entry.content) THEN SerializeText(CdataLines(entry.content))
                 ELSE None]

NoResponse == [status |-> 0, mimetype |-> "", body |-> "", items |-> <<>>]

\* ItemElement tabulated over the entries the items can give, so that each
\* entry is serialized once.
AllEntries == {NormalizeEntry(e) : e \in {x \in Items : ~LacksRequired(x)}}
ItemElements == [entry \in AllEntries |-> ItemElement(entry)]

create_xml_response(es) ==
    [status |-> 200, mimetype |-> "application/rss+xml", body |-> "rss",
     items |-> [k \in 1..Len(es) |-> ItemElements[es[k]]]]

\* Response("...", status=...) with Flask's default mimetype.
TextResponse(message, status) ==
    [status |-> status, mimetype |-> "text/html", body |-> message, items |-> <<>>]

(***************************************************************************)
(* The request handler filtered_feed, step by step.                        *)
(*   pc         "idle", "loop" (in the for loop of get_filtered_entries),  *)
(*              "returned" / "raised" (get_filtered_entries has ended),    *)
(*              "done" (the response is built)                             *)
(*   i          the position in feed_urls of the URL the loop is at        *)
(*   last_error the local of get_filtered_entries                          *)
(*   entries    the list get_filtered_entries returned                     *)
(*   response   the response of the request                               *)
(*   attempts   history: one record per call of fetch_feed in the request  *)
(*   payload    history: the feed.entries the returned list was built from *)
(*                                                                         *)
(* fetch_feed is the boundary to the upstream site: a call raises or       *)
(* returns a parsed feed, drawn from Feeds.  lru_cache(maxsize=1) makes a  *)
(* call with the (feed_url, timestamp) of the previous successful call     *)
(* return that call's feed, which is one of the feeds the draw covers; the *)
(* request reads nothing else of the cache, and timestamp is used for      *)
(* nothing but the cache key, so neither is kept as a variable.            *)
(***************************************************************************)
Url == feed_urls[i]

Attempt(fetched, f) ==
    [url |-> Url, fetched |-> fetched,
     empty |-> fetched /\ f = <<>>,
     raised |-> fetched /\ Outcome(f) = "raised",
     oneMalformed |-> fetched /\ Cardinality({k \in 1..Len(f) : LacksRequired(f[k])}) = 1]

StartRequest ==
    /\ pc \in {"idle", "done"}
    /\ pc' = "loop"
    /\ i' = 1
    /\ last_error' = "None"
    /\ entries' = <<>>
    /\ attempts' = <<>>
    /\ payload' = <<>>
    /\ response' = NoResponse
    /\ UNCHANGED <<text, element>>

\* fetch_feed returns the feed f: the body of the try block.
FetchFeed ==
    /\ pc = "loop" /\ i <= Len(feed_urls)
    /\ is_valid_url(Url)
    /\ \E f \in Feeds :
          /\ attempts' = Append(attempts, Attempt(TRUE, f))
          /\ CASE Outcome(f) = "returned" ->
                    /\ entries' = FilteredEntries(f)
                    /\ payload' = f
                    /\ pc' = "returned"
                    /\ UNCHANGED <<i, last_error>>
               [] Outcome(f) = "raised" ->
                    /\ last_error' = "AttributeError"
                    /\ i' = i + 1
                    /\ UNCHANGED <<pc, entries, payload>>
               [] OTHER ->
                    /\ i' = i + 1
                    /\ UNCHANGED <<pc, entries, payload, last_error>>
    /\ UNCHANGED <<response, text, element>>

\* fetch_feed raises (ValueError, a network or an HTTP error): the except
\* clause keeps the error and the loop goes on.
FetchError ==
    /\ pc = "loop" /\ i <= Len(feed_urls)
    /\ last_error' = "FetchError"
    /\ attempts' = Append(attempts, Attempt(FALSE, <<>>))
    /\ i' = i + 1
    /\ UNCHANGED <<pc, entries, payload, response, text, element>>

\* The loop is over: raise last_error, or return [].
ExitLoop ==
    /\ pc = "loop" /\ i > Len(feed_urls)
    /\ IF last_error # "None"
       THEN pc' = "raised" /\ UNCHANGED entries
       ELSE pc' = "returned" /\ entries' = <<>>
    /\ UNCHANGED <<i, last_error, attempts, payload, response, text, element>>

\* filtered_feed after get_filtered_entries.
Respond ==
    /\ pc \in {"returned", "raised"}
    /\ response' = IF pc = "raised" THEN TextResponse("Internal server error", 500)
                   ELSE IF entries = <<>>
                        THEN TextResponse("No entries found in the feed", 503)
                        ELSE create_xml_response(entries)
    /\ pc' = "done"
    /\ UNCHANGED <<i, last_error, entries, attempts, payload, text, element>>

Init ==
    /\ pc = "idle"
    /\ i = 1
    /\ last_error = "None"
    /\ entries = <<>>
    /\ attempts = <<>>
    /\ payload = <<>>
    /\ response = NoResponse
    /\ text = <<>>
    /\ element = NoElement

Next ==
    \/ StartRequest
    \/ FetchFeed
    \/ FetchError
    \/ ExitLoop
    \/ Respond

Spec == Init /\ [][Next]_vars

(***************************************************************************)
(* FeedEntry.to_xml applied to an entry whose description is drawn from a  *)
(* family of texts: a head, a filler pattern repeated to the wanted        *)
(* length, a tail.                                                         *)
(***************************************************************************)
LongDescription == 600
Margin == 3

Heads == {<<>>, <<" ">>, <<"<","p",">">>, <<"a"," "," ","b"," ">>}
Tails == {<<>>, <<".">>, <<" ","T","h","e"," ","p","o","s","t"," ","F","o","o"," ","a","p","p","e","a","r","e","d"," ","f","i","r","s","t"," ","o","n"," ","B","a","r",".">>, <<"<","/","p",">">>}
Patterns == {<<"x">>, <<"a","b"," ">>, <<"a"," "," ">>, <<" ">>}
Lengths ==
    (0..Margin) \cup ((MaxDescription - Margin)..(MaxDescription + Margin))
                \cup ((LongDescription - 1)..LongDescription)

Repeat(p, n) == [k \in 1..n |-> p[((k - 1) % Len(p)) + 1]]

Descriptions ==
    {h \o Repeat(p, n - Len(h) - Len(t)) \o t :
        <<h, p, t, n>> \in {q \in Heads \X Patterns \X Tails \X Lengths :
                               q[4] >= Len(q[1]) + Len(q[3])}}

InitClean ==
    /\ text \in Descriptions
    /\ element = NoElement
    /\ pc = "idle" /\ i = 1 /\ last_error = "None" /\ entries = <<>>
    /\ attempts = <<>> /\ payload = <<>> /\ response = NoResponse

ToXml ==
    /\ ~element.built
    /\ element' = to_xml(FeedEntry(<<"A">>, <<"/","i","r","a","q","/","a">>, text, None, None))
    /\ UNCHANGED <<pc, i, last_error, entries, attempts, payload, response, text>>

NextClean == ToXml

SpecClean == InitClean /\ [][NextClean]_vars

(***************************************************************************)
(* Properties                                                              *)
(***************************************************************************)
LastAttempt == attempts[Len(attempts)]

\* An attempt whose feed was fetched, had entries, and was processed.
Productive(a) == a.fetched /\ ~a.empty /\ ~a.raised

\* get_filtered_entries returned from inside the loop.
ServedFeed == pc \in {"returned", "done"} /\ attempts # <<>> /\ Productive(LastAttempt)

Ok == response.status = 200

\* xs is a subsequence of ys: some strictly increasing choice of positions of
\* ys gives xs.
IsSubsequence(xs, ys) ==
    \E f \in [1..Len(xs) -> 1..Len(ys)] :
        /\ \A j, k \in 1..Len(xs) : j < k => f[j] < f[k]
        /\ \A k \in 1..Len(xs) : xs[k] = ys[f[k]]

\* What identifies an item of the feed, an entry built from it, and an <item>
\* element emitted for it.
ItemKeys(f) == [k \in 1..Len(f) |-> <<f[k].title, f[k].link, f[k].summary>>]
EntryKeys(es) == [k \in 1..Len(es) |-> <<es[k].title, es[k].link, es[k].description>>]
ItemLinks(f) == [k \in 1..Len(f) |-> <<f[k].title, f[k].link>>]
ElementLinks(els) == [k \in 1..Len(els) |-> <<els[k].title, els[k].link>>]

LinksOf(xs) == [k \in 1..Len(xs) |-> xs[k].link]

\* C1: when the fetch of every candidate URL fails, the response has status
\* 503 and a plain-text body that is not the RSS document.
C1_AllFetchesFail503 ==
    (/\ pc = "done"
     /\ Len(attempts) = Len(feed_urls)
     /\ \A k \in 1..Len(attempts) : ~attempts[k].fetched)
    => (/\ response.status = 503
        /\ response.mimetype # "application/rss+xml"
        /\ response.items = <<>>)

\* C2: a request that ends with no retained item because no item of a fetched
\* feed passes the filter (a fetched feed without items included, an earlier
\* failed candidate or not) is answered with status 503.
C2_NothingRetained503 ==
    (/\ pc = "done"
     /\ entries = <<>>
     /\ \E k \in 1..Len(attempts) : attempts[k].fetched
     /\ \A k \in 1..Len(attempts) : ~attempts[k].raised)
    => response.status = 503

\* C3: an item of the filtered feed is retained if and only if its link,
\* lower-cased, contains "/iraq/"; an item without a link, or with an empty
\* one, is never retained.
SlashIraqSlash == <<"/","i","r","a","q","/">>
ClaimedFilter(e) == e.link # Missing /\ Contains(Lower(e.link), SlashIraqSlash)

C3_RetainedIffSlashIraqSlash ==
    ServedFeed => LinksOf(entries) = LinksOf(SelectSeq(payload, ClaimedFilter))

\* C4: the entries returned by get_filtered_entries and the items emitted by
\* create_xml_response are a subsequence of the feed's items in their original
\* order; the feed a, b, c with links /iraq/a, /iran/b, /iraq/c gives exactly
\* the two items a, c.
C4_OrderedSubsequence ==
    ServedFeed =>
        /\ IsSubsequence(EntryKeys(entries), ItemKeys(payload))
        /\ pc = "done" =>
              /\ entries # <<>> => Ok
              /\ Len(response.items) = Len(entries)
              /\ IsSubsequence(ElementLinks(response.items), ItemLinks(payload))
              /\ payload = <<ItemA, ItemB, ItemC>> =>
                    LinksOf(response.items) = <<ItemA.link, ItemC.link>>

C4_Witness ==
    /\ pc = "done"
    /\ payload = <<ItemA, ItemB, ItemC>>
    /\ Len(response.items) = 2

\* C5: the description of an emitted entry that contains markup stands in the
\* output between the literal markers <![CDATA[ and ]]>, none of its characters
\* replaced by an entity.
ContainsMarkup(s) == \E k \in 1..Len(s) : s[k] = "<"

C5_CdataVerbatim ==
    (pc = "done" /\ Ok) =>
        \A k \in 1..Len(entries) :
            ContainsMarkup(entries[k].description) =>
                response.items[k].description = Cdata(entries[k].description)

\* C6: when one item of a fetched feed lacks its title or its link, only that
\* item is dropped: the feed is not abandoned, the request does not fail, and
\* the other items that pass the filter are returned.
WellFormed(e) == ~LacksRequired(e)

C6_OnlyMalformedItemDropped ==
    (attempts # <<>> /\ LastAttempt.fetched /\ LastAttempt.oneMalformed) =>
        /\ pc \in {"returned", "done"}
        /\ LinksOf(entries) = LinksOf(SelectSeq(SelectSeq(payload, WellFormed), PassesFilter))
        /\ pc = "done" => response.status # 500

\* C7 as stated: the candidates are tried in list order, each at most once,
\* and no candidate is tried after one whose fetch succeeded.
InListOrder ==
    /\ Len(attempts) <= Len(feed_urls)
    /\ \A k \in 1..Len(attempts) : attempts[k].url = feed_urls[k]
    /\ \A j, k \in 1..Len(attempts) : j # k => attempts[j].url # attempts[k].url
    /\ pc = "loop" => Len(attempts) = i - 1

C8_EmittedDescriptionCleaned ==
    (pc = "done" /\ Ok) =>
        \A k \in 1..Len(entries) :
            Contains(entries[k].description, ThePost) =>
                response.items[k].description \in
                    {_clean_description(entries[k].description),
                     Cdata(_clean_description(entries[k].description))}

\* C10: the isPermaLink attribute of an emitted guid is "true" when the guid
\* text equals the entry's link and "false" otherwise.
C10_PermaLinkReflectsGuid ==
    (pc = "done" /\ Ok) =>
        \A k \in 1..Len(response.items) :
            (response.items[k].isPermaLink = "true")
                <=> (response.items[k].guid = response.items[k].link)

(***************************************************************************)
(* Properties of _clean_description, on the elements to_xml builds.        *)
(***************************************************************************)
PlainText(s) == \A k \in 1..Len(s) : s[k] \notin {"<", ">"}

\* Nothing for the cleanup to remove: no boilerplate, no leading markup, and
\* single spaces between words only.
AlreadyClean(s) ==
    /\ ~Contains(s, ThePost)
    /\ s # <<>> => (s[1] \notin {"<", " "} /\ s[Len(s)] # " ")
    /\ \A k \in 1..Len(s) : s[k] \notin {"\n", "\t"}
    /\ \A k \in 1..(Len(s) - 1) : ~(s[k] = " " /\ s[k + 1] = " ")

EndsInEllipsis(s) == Len(s) >= Len(Ellipsis) /\ SubSeq(s, Len(s) - Len(Ellipsis) + 1, Len(s)) = Ellipsis

\* C9 as stated: the cleanup leaves the length of every description of at most
\* 500 characters unchanged and maps every 600-character plain-text description
\* to exactly 500 characters ending in "...".
C9_LengthKeptOrTruncated ==
    element.built =>
        /\ Len(text) <= MaxDescription => Len(element.description) = Len(text)
        /\ (Len(text) = LongDescription /\ PlainText(text)) =>
              (Len(element.description) = MaxDescription /\ EndsInEllipsis(element.description))

\* C9, amended: the same, for the descriptions in which the cleanup finds
\* nothing to remove (no boilerplate, no leading markup, words separated by
\* single spaces, no leading or trailing whitespace).
C9_CleanLengthKeptOrTruncated ==
    element.built =>
        /\ (Len(text) <= MaxDescription /\ AlreadyClean(text)) =>
              Len(element.description) = Len(text)
        /\ (Len(text) = LongDescription /\ PlainText(text) /\ AlreadyClean(text)) =>
              (Len(element.description) = MaxDescription /\ EndsInEllipsis(element.description))

C9_Witness ==
    /\ element.built
    /\ Len(text) = LongDescription
    /\ PlainText(text) /\ AlreadyClean(text)
    /\ Len(element.description) = MaxDescription

====
